---------------------------- MODULE Spec2Model ----------------------------
(***************************************************************************)
(* Model of format_change_all_companies.py: process_company_data reads one *)
(* company's CSV export, groups the sector records by record_id,           *)
(* aggregates each group into one row, reshapes the table and writes it    *)
(* to one sheet of a shared workbook.                                      *)
(*                                                                         *)
(* Text is a sequence of one-character strings, so that joining,           *)
(* replacing and number formatting are computed character by character.    *)
(* A cell of a CSV file is text; the empty text is the missing value.      *)
(* A cell of a DataFrame is a tagged value: [int |-> n], [str |-> text]    *)
(* or [nan |-> TRUE].                                                      *)
(***************************************************************************)
EXTENDS Integers, Sequences, FiniteSets, TLC

VARIABLES files, workbook, call

vars == <<files, workbook, call>>

-----------------------------------------------------------------------------
(* Bounds of the model *)

\* The longest CSV file (number of sector records) the first input holds.
MaxRows == 3

-----------------------------------------------------------------------------
(* Text and numbers *)

Digits == <<"0", "1", "2", "3", "4", "5", "6", "7", "8", "9">>

\* int(c) of a digit
DigitValue == [c \in {Digits[i] : i \in 1..Len(Digits)} |->
                  (CHOOSE i \in 1..Len(Digits) : Digits[i] = c) - 1]

IsDigit(c) == c \in DOMAIN DigitValue

DigitVal(c) == DigitValue[c]

\* The numerals read_csv turns into int64: here the unsigned decimal ones.
IsNumeral(s) == s # <<>> /\ \A i \in 1..Len(s) : IsDigit(s[i])

RECURSIVE ParseNat(_)
ParseNat(s) ==
    IF s = <<>> THEN 0
    ELSE ParseNat(SubSeq(s, 1, Len(s) - 1)) * 10 + DigitVal(s[Len(s)])

\* str(n) of a non-negative integer.
RECURSIVE ToStr(_)
ToStr(n) ==
    IF n < 10 THEN <<Digits[n + 1]>>
    ELSE ToStr(n \div 10) \o <<Digits[(n % 10) + 1]>>

\* Code-point order of the characters record ids are made of.
CodeOrder == Digits \o <<"E">>

Ord(c) == CHOOSE i \in 1..Len(CodeOrder) : CodeOrder[i] = c

\* Python's str comparison a < b: lexicographic by code point.
RECURSIVE StrLess(_, _)
StrLess(a, b) ==
    IF b = <<>> THEN FALSE
    ELSE IF a = <<>> THEN TRUE
    ELSE IF a[1] # b[1] THEN Ord(a[1]) < Ord(b[1])
    ELSE StrLess(Tail(a), Tail(b))

\* s.startswith(p)
StartsWith(s, p) == Len(p) <= Len(s) /\ SubSeq(s, 1, Len(p)) = p

\* str.replace(old, new): non-overlapping occurrences, left to right.
RECURSIVE Replace(_, _, _)
Replace(s, old, new) ==
    IF s = <<>> THEN <<>>
    ELSE IF StartsWith(s, old)
         THEN new \o Replace(SubSeq(s, Len(old) + 1, Len(s)), old, new)
         ELSE <<s[1]>> \o Replace(Tail(s), old, new)

\* sep.join(parts)
RECURSIVE Join(_, _)
Join(sep, parts) ==
    IF parts = <<>> THEN <<>>
    ELSE IF Len(parts) = 1 THEN parts[1]
    ELSE parts[1] \o sep \o Join(sep, Tail(parts))

-----------------------------------------------------------------------------
(* Cells of a DataFrame *)

NaN == [nan |-> TRUE]

IntCell(n) == [int |-> n]

StrCell(s) == [str |-> s]

IsNaN(v) == DOMAIN v = {"nan"}

IsInt(v) == DOMAIN v = {"int"}

\* str(v), also what astype(str) gives for the element v.
AsStr(v) ==
    IF IsInt(v) THEN ToStr(v.int)
    ELSE IF IsNaN(v) THEN <<"n", "a", "n">>
    ELSE v.str

\* float(v) raises ValueError on text that is no number.
FloatRaises(v) == ~IsInt(v) /\ ~IsNaN(v) /\ ~IsNumeral(v.str)

\* float(v) where it does not raise (no cell of the model's bandwidth
\* column is missing, so the value is never the float nan).
Float(v) == IF IsInt(v) THEN v.int ELSE ParseNat(v.str)

-----------------------------------------------------------------------------
(* Column names and settings of process_company_data *)

use_cols == <<"Tier-4 id", "record_id", "area_name*", "latitude", "longitude",
              "structure_height", "tx_ant_azimuth", "licence_category*",
              "technology", "tx_power", "bandwidth">>

group_unique_values == <<"Tier-4 id", "record_id", "latitude", "longitude",
                         "structure_height">>

group_repeated_values == <<"licence_category*", "tx_ant_azimuth", "technology",
                           "bandwidth", "tx_power">>

name_groupby == "record_id"

final_columns == <<"Code", "Name", "Province", "Tower ID", "Licensee",
                   "LATITUDE", "LONGITUDE", "Height (m)", "Type", "Micro",
                   "Macro", "TX_ANT_AZI", "SERVICES", "TECHNOLOGY",
                   "TR_BW_BLOCS", "4G_BW", "5G_BW", "TX_PWR">>

Range(s) == {s[i] : i \in 1..Len(s)}

UseCols == Range(use_cols)

UniqueCols == Range(group_unique_values)

RepeatedCols == Range(group_repeated_values)

FinalCols == Range(final_columns)

LTE == <<"L", "T", "E">>

FiveG == <<"5", "G">>

FourG == <<"4", "G">>

Tilde == <<"~">>

Bar == <<"|">>

-----------------------------------------------------------------------------
(* Loader: pd.read_csv(input_csv, usecols=use_cols) *)

\* usecols names a column the file does not have: read_csv raises ValueError.
ReadCsvRaises(file) == ~(UseCols \subseteq file.columns)

\* A column whose every cell is a numeral is read as int64; any other column
\* is read as object, its cells kept as text and its empty cells as NaN.
ColumnIsInt(file, col) ==
    /\ file.rows # <<>>
    /\ \A i \in 1..Len(file.rows) : IsNumeral(file.rows[i][col])

ReadCell(is_int, text) ==
    IF is_int THEN IntCell(ParseNat(text))
    ELSE IF text = <<>> THEN NaN
    ELSE StrCell(text)

RECURSIVE ReadRows(_, _)
ReadRows(rows, int_columns) ==
    IF rows = <<>> THEN <<>>
    ELSE <<[c \in UseCols |-> ReadCell(c \in int_columns, rows[1][c])]>>
         \o ReadRows(Tail(rows), int_columns)

ReadCsv(file) ==
    ReadRows(file.rows, {c \in UseCols : ColumnIsInt(file, c)})

-----------------------------------------------------------------------------
(* Grouper: df.groupby(name_groupby), with pandas' defaults sort=True and  *)
(* dropna=True                                                             *)

KeyLess(a, b) == IF IsInt(a) THEN a.int < b.int ELSE StrLess(a.str, b.str)

\* The keys of S in ascending order.
RECURSIVE SortedKeys(_)
SortedKeys(S) ==
    IF S = {} THEN <<>>
    ELSE LET m == CHOOSE k \in S : \A j \in S \ {k} : KeyLess(k, j)
         IN  <<m>> \o SortedKeys(S \ {m})

\* The keys of df in the order of their first appearance.
RECURSIVE FirstSeen(_, _, _)
FirstSeen(df, key, seen) ==
    IF df = <<>> THEN <<>>
    ELSE IF df[1][key] \in seen THEN FirstSeen(Tail(df), key, seen)
    ELSE <<df[1][key]>> \o FirstSeen(Tail(df), key, seen \cup {df[1][key]})

\* groupby(..., sort=False): the groups in first-appearance order.
GroupKeysUnsorted(df, key) == FirstSeen(df, key, {NaN})

\* Group keys as groupby enumerates them: the missing key is dropped
\* (dropna=True) and the others are sorted (sort=True).
GroupKeys(df, key) == SortedKeys({df[i][key] : i \in 1..Len(df)} \ {NaN})

RowsOf(df, key, k) == SelectSeq(df, LAMBDA r : r[key] = k)

RECURSIVE Groups(_, _, _)
Groups(df, key, keys) ==
    IF keys = <<>> THEN <<>>
    ELSE <<[group_name |-> keys[1], group_df |-> RowsOf(df, key, keys[1])]>>
         \o Groups(df, key, Tail(keys))

GroupBy(df, key) == Groups(df, key, GroupKeys(df, key))

-----------------------------------------------------------------------------
(* Aggregator: the body of the loop over the groups *)

\* group_df.iloc[-1][col]: the last row taken for the first.
UniqueValueLast(group_df, col) == group_df[Len(group_df)][col]

\* group_df.iloc[0][col]
UniqueValue(group_df, col) == group_df[1][col]

\* The values of s without repetition, in first-seen order.
RECURSIVE Unique(_, _)
Unique(s, seen) ==
    IF s = <<>> THEN <<>>
    ELSE IF s[1] \in seen THEN Unique(Tail(s), seen)
    ELSE <<s[1]>> \o Unique(Tail(s), seen \cup {s[1]})

\* '~'.join(group_df[col].astype(str).unique()): repeated values merged.
RepeatedValueUnique(group_df, col) ==
    StrCell(Join(Tilde,
        Unique([i \in 1..Len(group_df) |-> AsStr(group_df[i][col])], {})))

\* '~'.join(group_df[col].astype(str).tolist())
RepeatedValue(group_df, col) ==
    StrCell(Join(Tilde, [i \in 1..Len(group_df) |-> AsStr(group_df[i][col])]))

\* The loop with the 5G branch adding to 4G_BW (a copied line not edited).
RECURSIVE AccumulateSameColumn(_, _)
AccumulateSameColumn(rows, acc) ==
    IF rows = <<>> THEN acc
    ELSE LET tech == AsStr(rows[1]["technology"])
             bw   == Float(rows[1]["bandwidth"])
         IN  AccumulateSameColumn(Tail(rows),
                 IF tech = LTE THEN [acc EXCEPT !["4G_BW"] = @ + bw]
                 ELSE IF tech = FiveG THEN [acc EXCEPT !["4G_BW"] = @ + bw]
                 ELSE acc)

\* The loop with tech.startswith('LTE') for tech == 'LTE'.
RECURSIVE AccumulatePrefix(_, _)
AccumulatePrefix(rows, acc) ==
    IF rows = <<>> THEN acc
    ELSE LET tech == AsStr(rows[1]["technology"])
             bw   == Float(rows[1]["bandwidth"])
         IN  AccumulatePrefix(Tail(rows),
                 IF StartsWith(tech, LTE) THEN [acc EXCEPT !["4G_BW"] = @ + bw]
                 ELSE IF tech = FiveG THEN [acc EXCEPT !["5G_BW"] = @ + bw]
                 ELSE acc)

\* The loop over group_df.iterrows(), from the accumulators acc.
RECURSIVE Accumulate(_, _)
Accumulate(rows, acc) ==
    IF rows = <<>> THEN acc
    ELSE LET tech == AsStr(rows[1]["technology"])
             bw   == Float(rows[1]["bandwidth"])
         IN  Accumulate(Tail(rows),
                 IF tech = LTE THEN [acc EXCEPT !["4G_BW"] = @ + bw]
                 ELSE IF tech = FiveG THEN [acc EXCEPT !["5G_BW"] = @ + bw]
                 ELSE acc)

\* float(row['bandwidth']) raises for some row of the group.
AccumulateRaises(group_df) ==
    \E i \in 1..Len(group_df) : FloatRaises(group_df[i]["bandwidth"])

RowResult(group) ==
    LET gdf == group.group_df
        acc == Accumulate(gdf, [c \in {"4G_BW", "5G_BW"} |-> 0])
    IN  [c \in UniqueCols \cup RepeatedCols \cup {"4G_BW", "5G_BW"} |->
            IF c \in UniqueCols THEN UniqueValue(gdf, c)
            ELSE IF c \in RepeatedCols THEN RepeatedValue(gdf, c)
            ELSE acc[c]]

\* results.append(row_result), group after group
RECURSIVE Aggregate(_)
Aggregate(groups) ==
    IF groups = <<>> THEN <<>>
    ELSE <<RowResult(groups[1])>> \o Aggregate(Tail(groups))

AggregateRaises(groups) ==
    \E g \in 1..Len(groups) : AccumulateRaises(groups[g].group_df)

-----------------------------------------------------------------------------
(* Transformer: rename, derived fields, text normalisation, column order *)

rename_columns ==
    ("Tier-4 id" :> "Code") @@ ("record_id" :> "Tower ID")
    @@ ("latitude" :> "LATITUDE") @@ ("longitude" :> "LONGITUDE")
    @@ ("structure_height" :> "Height (m)")
    @@ ("tx_ant_azimuth" :> "TX_ANT_AZI")
    @@ ("licence_category*" :> "SERVICES") @@ ("technology" :> "TECHNOLOGY")
    @@ ("tx_power" :> "TX_PWR") @@ ("bandwidth" :> "TR_BW_BLOCS")

NewName(c) == IF c \in DOMAIN rename_columns THEN rename_columns[c] ELSE c

\* results.rename(columns=...), on one row
Rename(row) ==
    [n \in {NewName(c) : c \in DOMAIN row} |->
        row[CHOOSE c \in DOMAIN row : NewName(c) = n]]

\* 'Micro' if x <= 10 else 'Macro'
TypeOfInclusive(x) == IF IsInt(x) /\ x.int <= 10 THEN "Micro" ELSE "Macro"

\* lambda x: 'Micro' if x < 10 else 'Macro'; a comparison with nan is False.
TypeOf(x) == IF IsInt(x) /\ x.int < 10 THEN "Micro" ELSE "Macro"

\* x < 10 raises TypeError when x is text.
TypeOfRaises(x) == ~IsInt(x) /\ ~IsNaN(x)

\* lambda x: 1 if x == 'Micro' else '-'   (and the same for 'Macro')
Marker(type, which) == IF type = which THEN IntCell(1) ELSE StrCell(<<"-">>)

\* Lines 68-75 with the delimiter of TECHNOLOGY replaced as well.
AddFieldsBar(row, province, licensee_name) ==
    LET type == TypeOf(row["Height (m)"])
    IN  ("Name" :> StrCell(<<" ">>)) @@ ("Province" :> StrCell(province))
        @@ ("Licensee" :> StrCell(licensee_name))
        @@ ("Type" :> StrCell(type))
        @@ ("Micro" :> Marker(type, "Micro"))
        @@ ("Macro" :> Marker(type, "Macro"))
        @@ ("SERVICES" :> StrCell(Replace(row["SERVICES"].str, Tilde, Bar)))
        @@ ("TECHNOLOGY" :>
               StrCell(Replace(Replace(row["TECHNOLOGY"].str, LTE, FourG),
                               Tilde, Bar)))
        @@ row

\* Lines 68-75, on one renamed row.
AddFields(row, province, licensee_name) ==
    LET type == TypeOf(row["Height (m)"])
    IN  ("Name" :> StrCell(<<" ">>)) @@ ("Province" :> StrCell(province))
        @@ ("Licensee" :> StrCell(licensee_name))
        @@ ("Type" :> StrCell(type))
        @@ ("Micro" :> Marker(type, "Micro"))
        @@ ("Macro" :> Marker(type, "Macro"))
        @@ ("SERVICES" :> StrCell(Replace(row["SERVICES"].str, Tilde, Bar)))
        @@ ("TECHNOLOGY" :> StrCell(Replace(row["TECHNOLOGY"].str, LTE, FourG)))
        @@ row

\* results[final_columns], on one row
Reorder(row) == [c \in FinalCols |-> row[c]]

RECURSIVE Transform(_, _, _)
Transform(results, province, licensee_name) ==
    IF results = <<>> THEN <<>>
    ELSE <<Reorder(AddFields(Rename(results[1]), province, licensee_name))>>
         \o Transform(Tail(results), province, licensee_name)

\* An empty list of row results makes a DataFrame without columns, and
\* results["Height (m)"] raises KeyError.
TransformKeyError(results) == results = <<>>

\* No height is compared as text: a text height passes as 'Macro'.
TransformTypeErrorNever(results) == FALSE

TransformTypeError(results) ==
    \E i \in 1..Len(results) : TypeOfRaises(results[i]["structure_height"])

-----------------------------------------------------------------------------
(* Reporter: the workbook file, a list of sheets *)

NoWorkbook == [exists |-> FALSE, sheets |-> <<>>]

SheetNamesOf(wb) == {wb.sheets[i].name : i \in 1..Len(wb.sheets)}

SheetIndex(wb, sheet_name) ==
    CHOOSE i \in 1..Len(wb.sheets) : wb.sheets[i].name = sheet_name

\* results.to_excel(writer, index=False, sheet_name=sheet_name)
NewSheet(sheet_name, table) ==
    [name |-> sheet_name, header |-> final_columns, rows |-> table,
     header_styled |-> FALSE]

\* Lines 84-89 without mode="a": every call writes a new workbook.
ToExcelOverwrite(wb, sheet_name, table) ==
    [exists |-> TRUE, sheets |-> <<NewSheet(sheet_name, table)>>]

\* Lines 84-89: append with if_sheet_exists="replace" (the old sheet is
\* deleted and the new one created at its index), or a new workbook.
ToExcel(wb, sheet_name, table) ==
    IF wb.exists
    THEN IF sheet_name \in SheetNamesOf(wb)
         THEN [wb EXCEPT !.sheets[SheetIndex(wb, sheet_name)] =
                             NewSheet(sheet_name, table)]
         ELSE [wb EXCEPT !.sheets = Append(@, NewSheet(sheet_name, table))]
    ELSE [exists |-> TRUE, sheets |-> <<NewSheet(sheet_name, table)>>]

\* Lines 92-99: the header row of the sheet gets the fill and the font.
ApplyStyling(wb, sheet_name) ==
    [wb EXCEPT !.sheets[SheetIndex(wb, sheet_name)].header_styled = TRUE]

-----------------------------------------------------------------------------
(* The CSV exports on disk *)

E5015 == <<"E", "5", "0", "1", "5">>

E0092 == <<"E", "0", "0", "9", "2">>

UMTS == <<"U", "M", "T", "S">>

LTE_A == <<"L", "T", "E", "-", "A">>

PCS == <<"P", "C", "S">>

AWS == <<"A", "W", "S">>

SectorRecord(code, rid, lat, lon, height, azi, lic, tech, pwr, bw) ==
    ("Tier-4 id" :> code) @@ ("record_id" :> rid)
    @@ ("area_name*" :> <<"M", "T", "L">>)
    @@ ("latitude" :> ToStr(lat)) @@ ("longitude" :> ToStr(lon))
    @@ ("structure_height" :> height) @@ ("tx_ant_azimuth" :> ToStr(azi))
    @@ ("licence_category*" :> lic) @@ ("technology" :> tech)
    @@ ("tx_power" :> ToStr(pwr)) @@ ("bandwidth" :> bw)

SiteA(rid, height, azi, lic, tech, bw) ==
    SectorRecord(<<"Q", "1">>, rid, 45, 73, height, azi, lic, tech, 40, bw)

SiteB(rid, height, azi, lic, tech, bw) ==
    SectorRecord(<<"Q", "2">>, rid, 46, 74, height, azi, lic, tech, 43, bw)

\* The sector records the first export is made of: two towers, at two
\* sites, and a record without record_id; LTE, 5G and other technologies;
\* heights below, at and above 10; a bandwidth and a height that are no
\* numbers.
SectorRecords ==
    { SiteA(E5015, ToStr(10), 0,   PCS, LTE,   ToStr(10)),
      SiteA(E5015, ToStr(10), 120, AWS, FiveG, ToStr(100)),
      SiteB(E0092, ToStr(9),  240, PCS, UMTS,  ToStr(5)),
      SiteB(E5015, ToStr(12), 0,   AWS, LTE_A, ToStr(20)),
      SiteA(<<>>,  ToStr(10), 120, PCS, LTE,   ToStr(10)),
      SiteB(E0092, ToStr(9),  240, AWS, FiveG, <<"x">>),
      SiteA(E5015, <<"t", "a", "l", "l">>, 0, PCS, LTE, ToStr(10)) }

\* The rows of create_animation's input table, as full sector records.
ExampleRows ==
    << SiteA(E5015, ToStr(10), 0,   PCS, LTE,   ToStr(10)),
       SiteA(E5015, ToStr(10), 120, PCS, LTE,   ToStr(10)),
       SiteA(E5015, ToStr(10), 240, AWS, FiveG, ToStr(100)) >>

CsvFileOf(rows) == [columns |-> UseCols, rows |-> rows]

\* rows without the column col
WithoutColumn(rows, col) ==
    [columns |-> UseCols \ {col},
     rows |-> [i \in 1..Len(rows) |->
                  [c \in UseCols \ {col} |-> rows[i][c]]]]

CsvFiles ==
    {CsvFileOf(r) : r \in UNION {[1..n -> SectorRecords] : n \in 0..MaxRows}}
    \cup {WithoutColumn(ExampleRows, c) : c \in UseCols}

\* The calls of the main script: input file, company, licensee, province.
Companies ==
    { [input_csv |-> "Rogers sectors v3 Final.csv", company_name |-> "Rogers",
       licensee_name |-> "Rogers Communications Canada Inc.", province |-> "QC"],
      [input_csv |-> "TELUS sectors v3 Final.csv", company_name |-> "TELUS",
       licensee_name |-> "TELUS", province |-> "QC"] }

SheetNames == {"Rogers", "TELUS"}

-----------------------------------------------------------------------------
(* The state machine *)

NoCall ==
    [input_csv |-> "", sheet_name |-> "", status |-> "none", existed |-> FALSE,
     groups |-> <<>>, results |-> <<>>, table |-> <<>>]

Init ==
    /\ \E f \in CsvFiles :
          files = ("Rogers sectors v3 Final.csv" :> f)
                  @@ ("TELUS sectors v3 Final.csv" :> CsvFileOf(ExampleRows))
    /\ workbook = NoWorkbook
    /\ call = NoCall

\* What the call leaves behind when it raises exc: nothing is written.
Raised(c, exc) ==
    /\ call' = [c EXCEPT !.status = exc]
    /\ UNCHANGED workbook

\* One call, with workbook_name=output_workbook: it returns after the
\* styling, or raises before anything is written.
process_company_data(input_csv, company_name, licensee_name, province, sheet_name) ==
    LET file == files[input_csv]
        c0   == [NoCall EXCEPT !.input_csv = input_csv,
                               !.sheet_name = sheet_name]
    IN  /\ UNCHANGED files
        /\ IF ReadCsvRaises(file) THEN Raised(c0, "ValueError")
           ELSE
           LET groups == GroupBy(ReadCsv(file), name_groupby)
               c1     == [c0 EXCEPT !.groups = groups]
           IN  IF AggregateRaises(groups) THEN Raised(c1, "ValueError")
               ELSE
               LET results == Aggregate(groups)
                   c2      == [c1 EXCEPT !.results = results]
               IN  IF TransformKeyError(results) THEN Raised(c2, "KeyError")
                   ELSE IF TransformTypeError(results)
                   THEN Raised(c2, "TypeError")
                   ELSE
                   LET table == Transform(results, province, licensee_name)
                   IN  /\ call' = [c2 EXCEPT !.status = "ok",
                                             !.existed = workbook.exists,
                                             !.table = table]
                       /\ workbook' =
                            ApplyStyling(ToExcel(workbook, sheet_name, table),
                                         sheet_name)

Next ==
    \E c \in Companies, sheet_name \in SheetNames :
        process_company_data(c.input_csv, c.company_name, c.licensee_name,
                             c.province, sheet_name)

Spec == Init /\ [][Next]_vars

-----------------------------------------------------------------------------
(* Properties.  They are stated on the text of the CSV file the last call  *)
(* read and on what that call computed and wrote.                          *)

Succeeded == call.status = "ok"

\* The rows, as text, of the file the last call read.
InputRows == files[call.input_csv].rows

\* The input rows whose record_id is rid, in input order.
InputRowsOf(rid) == SelectSeq(InputRows, LAMBDA r : r["record_id"] = rid)

\* The tokens of text s between the occurrences of the character sep.
RECURSIVE SplitOn(_, _)
SplitOn(s, sep) ==
    IF \A i \in 1..Len(s) : s[i] # sep THEN <<s>>
    ELSE LET i == CHOOSE j \in 1..Len(s) :
                     s[j] = sep /\ \A k \in 1..(j - 1) : s[k] # sep
         IN  <<SubSeq(s, 1, i - 1)>> \o SplitOn(SubSeq(s, i + 1, Len(s)), sep)

\* The sum of the bandwidth of the rows whose technology is in techs.
RECURSIVE BandwidthOf(_, _)
BandwidthOf(rows, techs) ==
    IF rows = <<>> THEN 0
    ELSE (IF rows[1]["technology"] \in techs
          THEN ParseNat(rows[1]["bandwidth"]) ELSE 0)
         + BandwidthOf(Tail(rows), techs)

Contains(s, sub) ==
    \E i \in 1..(Len(s) - Len(sub) + 1) : SubSeq(s, i, i + Len(sub) - 1) = sub

RECURSIVE SumOfSizes(_)
SumOfSizes(groups) ==
    IF groups = <<>> THEN 0
    ELSE Len(groups[1].group_df) + SumOfSizes(Tail(groups))

\* The text of a cell of the result.
TextOf(cell) == IF IsInt(cell) THEN ToStr(cell.int) ELSE cell.str

\* C1: grouping drops and duplicates no row: the group sizes add up to the
\* number of input rows, every input row (one without record_id too) is in
\* exactly one group, and there are as many OutputRows as distinct
\* record_id values in the input.
C1_NoRowDropped ==
    Succeeded =>
        /\ SumOfSizes(call.groups) = Len(InputRows)
        /\ \A i \in 1..Len(InputRows) :
              Cardinality({g \in 1..Len(call.groups) :
                  TextOf(call.groups[g].group_name)
                      = InputRows[i]["record_id"]}) = 1
        /\ Len(call.table)
              = Cardinality({InputRows[i]["record_id"] : i \in 1..Len(InputRows)})

\* The position of the first input row whose record_id is rid.
FirstIndex(rid) ==
    CHOOSE i \in 1..Len(InputRows) :
        /\ InputRows[i]["record_id"] = rid
        /\ \A j \in 1..(i - 1) : InputRows[j]["record_id"] # rid

TowerId(i) == call.table[i]["Tower ID"].str

C3_BandwidthSums ==
    Succeeded =>
        \A g \in 1..Len(call.results) :
            LET rows == InputRowsOf(TextOf(call.results[g]["record_id"]))
            IN  /\ call.results[g]["4G_BW"] = BandwidthOf(rows, {LTE})
                /\ call.results[g]["5G_BW"] = BandwidthOf(rows, {FiveG})
                /\ call.table[g]["4G_BW"] + call.table[g]["5G_BW"]
                      = BandwidthOf(rows, {LTE, FiveG})

\* A group with an LTE row, a 5G row and a row of another technology.
C3_Witness ==
    /\ Succeeded
    /\ \E g \in 1..Len(call.results) :
          LET rows == InputRowsOf(TextOf(call.results[g]["record_id"]))
          IN  /\ call.results[g]["4G_BW"] > 0
              /\ call.results[g]["5G_BW"] > 0
              /\ \E i \in 1..Len(rows) :
                    rows[i]["technology"] \notin {LTE, FiveG}

\* C4: for every group and every variable field the joined text holds one
\* token per row of the group, the i-th token being the text of the i-th
\* row of the group in input order, the tokens separated by "~".
C4_JoinedInRowOrder ==
    Succeeded =>
        \A g \in 1..Len(call.results) :
            LET rows == InputRowsOf(TextOf(call.results[g]["record_id"]))
            IN  \A col \in RepeatedCols :
                    SplitOn(call.results[g][col].str, "~")
                        = [i \in 1..Len(rows) |-> rows[i][col]]

\* A group of three rows whose technologies repeat and are not sorted.
C4_Witness ==
    /\ Succeeded
    /\ \E g \in 1..Len(call.results) :
          SplitOn(call.results[g]["technology"].str, "~") = <<LTE, FiveG, LTE>>

\* A file the core fails on: a required column is missing, a row with a
\* record_id has a bandwidth that is no number, or a height is no number.
CoreFails(file) ==
    \/ \E c \in UseCols : c \notin file.columns
    \/ \E i \in 1..Len(file.rows) :
          /\ file.rows[i]["record_id"] # <<>>
          /\ ~IsNumeral(file.rows[i]["bandwidth"])
    \/ \E i \in 1..Len(file.rows) : ~IsNumeral(file.rows[i]["structure_height"])

\* The last call read exactly the rows (E5015, LTE, 10), (E5015, LTE, 10),
\* (E5015, 5G, 100) of create_animation's input table, in a file whose
\* columns are all there and whose heights are numbers.
ExampleInput ==
    /\ call.status # "none"
    /\ ~CoreFails(files[call.input_csv])
    /\ [i \in 1..Len(InputRows) |->
           <<InputRows[i]["record_id"], InputRows[i]["technology"],
             InputRows[i]["bandwidth"]>>]
        = << <<E5015, LTE, ToStr(10)>>, <<E5015, LTE, ToStr(10)>>,
             <<E5015, FiveG, ToStr(100)>> >>

ExampleOutput(technology) ==
    /\ Succeeded
    /\ Len(call.table) = 1
    /\ call.table[1]["Tower ID"] = StrCell(E5015)
    /\ call.table[1]["4G_BW"] = 20
    /\ call.table[1]["5G_BW"] = 100
    /\ call.table[1]["TECHNOLOGY"] = StrCell(technology)

\* C5 as stated: the example rows give one OutputRow for E5015 with
\* 4G_BW = 20, 5G_BW = 100 and the TECHNOLOGY text 4G|4G|5G.
C5_ExampleJoinedByBar ==
    ExampleInput =>
        ExampleOutput(<<"4", "G", "|", "4", "G", "|", "5", "G">>)

\* C5 amended: the example rows give one OutputRow for E5015 with
\* 4G_BW = 20, 5G_BW = 100 and the TECHNOLOGY text 4G~4G~5G: the tokens
\* of TECHNOLOGY stay joined by "~", only SERVICES is joined by "|".
C5_ExampleJoinedByTilde ==
    ExampleInput =>
        /\ ExampleOutput(<<"4", "G", "~", "4", "G", "~", "5", "G">>)
        /\ \A i \in 1..Len(call.table[1]["SERVICES"].str) :
              call.table[1]["SERVICES"].str[i] # "~"

\* The example was processed and its three services are joined by "|".
C5_Witness ==
    /\ ExampleInput
    /\ Succeeded
    /\ Len(SplitOn(call.table[1]["SERVICES"].str, "|")) = 3

Other(tech) == tech \notin {LTE, FiveG}

\* What a group's rows of another technology leave of its bandwidth.
OthersAddNothing(g, rows) ==
    call.table[g]["4G_BW"] + call.table[g]["5G_BW"]
        = BandwidthOf(rows, {rows[i]["technology"] : i \in 1..Len(rows)})
          - BandwidthOf(rows, {t \in {rows[i]["technology"] : i \in 1..Len(rows)} :
                                  Other(t)})

TechnologyToken(g, i) == SplitOn(call.table[g]["TECHNOLOGY"].str, "~")[i]

\* C6 as stated: a row whose technology is neither LTE nor 5G adds nothing
\* to 4G_BW and 5G_BW, and its token is in the final TECHNOLOGY text as it
\* was in the input.
C6_OtherTokenUnmodified ==
    Succeeded =>
        \A g \in 1..Len(call.table) :
            LET rows == InputRowsOf(TowerId(g))
            IN  /\ OthersAddNothing(g, rows)
                /\ \A i \in 1..Len(rows) :
                      Other(rows[i]["technology"])
                          => TechnologyToken(g, i) = rows[i]["technology"]

\* C6 amended: a row whose technology is neither LTE nor 5G adds nothing to
\* 4G_BW and 5G_BW; its token is in the final TECHNOLOGY text as it was in
\* the input when it does not contain LTE, and with every LTE in it
\* replaced by 4G when it does (LTE-A becomes 4G-A).
C6_OtherTokenUnlessLTEInside ==
    Succeeded =>
        \A g \in 1..Len(call.table) :
            LET rows == InputRowsOf(TowerId(g))
            IN  /\ OthersAddNothing(g, rows)
                /\ \A i \in 1..Len(rows) :
                      LET tech == rows[i]["technology"]
                      IN  /\ Other(tech) /\ ~Contains(tech, LTE)
                              => TechnologyToken(g, i) = tech
                          /\ tech = LTE_A
                              => TechnologyToken(g, i) = <<"4", "G", "-", "A">>

\* A UMTS row of bandwidth 5 beside an LTE-A row in one table.
C6_Witness ==
    /\ Succeeded
    /\ \E g \in 1..Len(call.table) :
          LET rows == InputRowsOf(TowerId(g))
          IN  \E i \in 1..Len(rows) :
                  /\ rows[i]["technology"] = UMTS
                  /\ rows[i]["bandwidth"] = ToStr(5)
                  /\ TechnologyToken(g, i) = UMTS
    /\ \E g \in 1..Len(call.table) :
          Contains(call.table[g]["TECHNOLOGY"].str, <<"4", "G", "-", "A">>)

\* C7: in every OutputRow, Type is Micro exactly when Height (m) < 10 and
\* Macro otherwise (10 is Macro), and exactly one of the markers Micro and
\* Macro is 1, the one Type names, the other being "-".
C7_TypeAndMarkers ==
    Succeeded =>
        \A g \in 1..Len(call.table) :
            LET row    == call.table[g]
                height == ParseNat(InputRowsOf(TowerId(g))[1]["structure_height"])
            IN  /\ row["Height (m)"] = IntCell(height)
                /\ row["Type"] = StrCell(IF height < 10 THEN "Micro" ELSE "Macro")
                /\ row["Micro"] = (IF height < 10 THEN IntCell(1)
                                                  ELSE StrCell(<<"-">>))
                /\ row["Macro"] = (IF height < 10 THEN StrCell(<<"-">>)
                                                  ELSE IntCell(1))

\* A table with a tower of height 10, marked Macro, and one of height 9,
\* marked Micro.
C7_Witness ==
    /\ Succeeded
    /\ \E g, h \in 1..Len(call.table) :
          /\ call.table[g]["Height (m)"] = IntCell(10)
          /\ call.table[g]["Macro"] = IntCell(1)
          /\ call.table[h]["Height (m)"] = IntCell(9)
          /\ call.table[h]["Micro"] = IntCell(1)

\* C8: a successful call creates the workbook when it is absent, adds its
\* sheet when the name is new and replaces it in place when the name
\* exists; the workbook then holds one sheet per sheet name used, and the
\* sheets of the other names are as they were.
C8_OneSheetPerName ==
    [][call'.status = "ok" =>
        /\ workbook'.exists
        /\ SheetNamesOf(workbook') = SheetNamesOf(workbook) \cup {call'.sheet_name}
        /\ Len(workbook'.sheets) = Cardinality(SheetNamesOf(workbook'))
        /\ \A i \in 1..Len(workbook.sheets) :
              workbook.sheets[i].name # call'.sheet_name
                  => workbook'.sheets[i] = workbook.sheets[i]
        /\ \E i \in 1..Len(workbook'.sheets) :
              /\ workbook'.sheets[i].name = call'.sheet_name
              /\ workbook'.sheets[i].header = final_columns
              /\ workbook'.sheets[i].rows = call'.table
              /\ workbook'.sheets[i].header_styled
              /\ call'.sheet_name \in SheetNamesOf(workbook)
                    => workbook.sheets[i].name = call'.sheet_name]_vars

\* The last call replaced the first of two sheets by another table.
C8_Witness ==
    /\ Succeeded
    /\ call.existed
    /\ Len(workbook.sheets) = 2
    /\ workbook.sheets[1].name = call.sheet_name
    /\ workbook.sheets[1].rows = call.table
    /\ workbook.sheets[2].rows # call.table

\* C9: a call whose core fails writes nothing: it ends with an exception
\* and without a table, and the workbook is as it was before the call.
C9_FailureWritesNothing ==
    [][CoreFails(files[call'.input_csv]) =>
        /\ call'.status \in {"ValueError", "TypeError", "KeyError"}
        /\ call'.table = <<>>
        /\ workbook' = workbook]_vars

\* A call failed on a height that is no number after another company's
\* sheet was written, and the sheet is still there.
C9_Witness ==
    /\ call.status = "TypeError"
    /\ CoreFails(files[call.input_csv])
    /\ workbook.exists
    /\ Len(workbook.sheets) = 1
    /\ workbook.sheets[1].header_styled

\* C10: the invariant fields of every OutputRow are those of the first row
\* of its group in input order, also when later rows of the group differ.
C10_FirstRowIsAuthoritative ==
    Succeeded =>
        \A g \in 1..Len(call.results) :
            LET rows == InputRowsOf(TextOf(call.results[g]["record_id"]))
            IN  \A col \in UniqueCols :
                    /\ TextOf(call.results[g][col]) = rows[1][col]
                    /\ call.table[g][rename_columns[col]] = call.results[g][col]

\* A group whose later row differs from its first row in the site fields.
C10_Witness ==
    /\ Succeeded
    /\ \E g \in 1..Len(call.results) :
          LET rows == InputRowsOf(TextOf(call.results[g]["record_id"]))
          IN  /\ Len(rows) >= 2
              /\ \A col \in UniqueCols \ {"record_id"} : rows[2][col] # rows[1][col]
              /\ \A col \in UniqueCols : TextOf(call.results[g][col]) = rows[1][col]

=============================================================================
